---- MODULE Spec2Model ----
(***************************************************************************)
(* Read-type proportion pipeline of genomicUtils:                          *)
(*   gexBamReadTypeProp.py  (partition, extract, global dedup, report)     *)
(*   calcReadTypeProp.py    (per-chunk counting and report of the CSV      *)
(*                           variant)                                      *)
(*   gexBamTagsToCSV.py     (partition, extract to temporary csv files,    *)
(*                           merge with global dedup)                      *)
(* A Python str is a sequence of one-character strings, so that the        *)
(* dedup key f"{cb}:{ub}" is a real concatenation.                         *)
(***************************************************************************)
EXTENDS Integers, Sequences, FiniteSets, TLC

VARIABLES
    input_bam,           \* the input path: is there a file, has it an index
    bam,                 \* the records of the alignment file, in file order
    references,          \* bam.references zipped with bam.lengths
    bin_size,            \* bin_size of get_bam_chunks
    num_threads,         \* processes of the mp.Pool
    pc,                  \* position of main
    chunks,              \* the list get_bam_chunks returned
    task,                \* per chunk: state of its task in the pool
    chunk_results,       \* per chunk: the list its worker returned
    merge_i,             \* index of the chunk the merge loop is at
    merge_j,             \* index of the record the merge loop is at
    global_umi_seen,     \* merge_chunk_results_streaming: global_umi_seen
    cell_data,           \* merge_chunk_results_streaming: cell_data
    total_records_before,
    total_records_after,
    counted,             \* history: the records that passed line 150
    out,                 \* the output csv: NoFile or its rows
    chunk,               \* calcReadTypeProp.process_chunk: its argument
    row_k,               \* calcReadTypeProp.process_chunk: loop position
    read_type_dict,      \* calcReadTypeProp.process_chunk: read_type_dict
    combined_dict,       \* calcReadTypeProp.main: combined_dict
    calc_pc,             \* position of calcReadTypeProp
    calc_out,            \* calcReadTypeProp.main: the output csv
    tags_pc,             \* position of gexBamTagsToCSV.main
    temp_files,          \* per chunk: the temporary csv of its worker
    umi_hashes_per_worker, \* per chunk: the umi_seen its worker returned
    total_umi_seen,      \* gexBamTagsToCSV.main: total_umi_seen
    seen_global,         \* merge_temp_files: seen_global
    final_output,        \* merge_temp_files: the final csv
    temp_i,              \* merge_temp_files: index of the temp file at hand
    reader,              \* calcReadTypeProp.main: the rows after the header
    reader_pos,          \* rows the csv reader has handed out
    chunk_size,          \* calcReadTypeProp.main: chunk_size
    imap_args,           \* the chunks chunk_iterator has yielded
    imap_task,           \* per yielded chunk: state of its task in the pool
    imap_result          \* per yielded chunk: the dict process_chunk returned

vars == <<input_bam, bam, references, bin_size, num_threads, pc, chunks, task,
          chunk_results, merge_i, merge_j, global_umi_seen, cell_data,
          total_records_before, total_records_after, counted, out,
          chunk, row_k, read_type_dict, combined_dict, calc_pc, calc_out,
          tags_pc, temp_files, umi_hashes_per_worker, total_umi_seen,
          seen_global, final_output, temp_i,
          reader, reader_pos, chunk_size, imap_args, imap_task, imap_result>>

inputVars == <<input_bam, bam, references, bin_size, num_threads>>

poolVars == <<chunks, task, chunk_results>>

mergeVars == <<merge_i, merge_j, global_umi_seen, cell_data,
               total_records_before, total_records_after, counted>>

calcVars == <<chunk, row_k, read_type_dict, combined_dict, calc_pc, calc_out>>

tagsVars == <<tags_pc, temp_files, umi_hashes_per_worker, total_umi_seen,
              seen_global, final_output, temp_i>>

imapVars == <<reader, reader_pos, chunk_size, imap_args, imap_task,
              imap_result>>

-----------------------------------------------------------------------------
(* Bounds of the model *)

MaxReads == 2        \* records in the alignment file
MaxRefLen == 2       \* length of the reference sequence
MaxThreads == 2      \* worker processes
MaxRows == 2         \* rows of a chunk of the csv
MaxRefs == 2         \* reference sequences given to the partitioner
MaxLength == 5       \* reference length given to the partitioner
MaxBinSize == 2      \* bin size given to the partitioner
MaxCells == 2        \* cells given to the reporter
MaxCount == 1        \* count of a region type given to the reporter
MaxCsvRows == 3      \* data rows of the input csv
MaxChunkSize == 2    \* chunk_size of calcReadTypeProp

-----------------------------------------------------------------------------
(* Values *)

MAPQ_CONFIDENT == 255

E == <<"E">>
N == <<"N">>
I == <<"I">>
RegionTypes == {E, N, I}

TagNames == {"CB", "UB", "RE"}

RefName(k) == <<"chr", k>>

(* a coordinate-sorted alignment file with its .bai index beside it *)
IndexedFile == [exists |-> TRUE, has_index |-> TRUE]

MissingFile == [exists |-> FALSE, has_index |-> FALSE]

UnindexedFile == [exists |-> TRUE, has_index |-> FALSE]

NoFile == [exists |-> FALSE, header |-> <<>>, rows |-> <<>>]

Min(a, b) == IF a < b THEN a ELSE b

-----------------------------------------------------------------------------
(* pysam.AlignedSegment *)

has_tag(read, tag) == tag \in DOMAIN read.tags

KeyError == <<"KeyError">>

get_tag(read, tag) == IF has_tag(read, tag) THEN read.tags[tag] ELSE KeyError

(* a record of the file that htslib cannot decode (a truncated or corrupt
   block): it has the attribute corrupt *)
Unreadable(read) == "corrupt" \in DOMAIN read

(* bam.fetch(reference, start, end): the records of the reference that
   overlap [start, end), in file order *)
fetch(file, reference, start, end) ==
    SelectSeq(file, LAMBDA read :
        /\ read.reference_name = reference
        /\ read.reference_start < end
        /\ read.reference_end > start)

-----------------------------------------------------------------------------
(* gexBamReadTypeProp.py *)

(* xxh64 of the key string; the digest is taken to be injective on the key
   strings of the model, so the key string stands for it *)
hash_umi(cb, ub) == cb \o <<":">> \o ub

EmptyExtract == [umi_records |-> <<>>, local_umi_seen |-> {}, raised |-> FALSE]

(* the confidence filter left out *)
AnyMappingQuality(read) == TRUE

(* if read.mapping_quality != 255: continue *)
ConfidentlyMapped(read) == read.mapping_quality = MAPQ_CONFIDENT

(* if not (read.has_tag("CB") and read.has_tag("UB")): continue *)
HasBarcodes(read) == has_tag(read, "CB") /\ has_tag(read, "UB")

(* if region_type in ['E', 'N', 'I'] *)
ValidRegion(region_type) == region_type \in RegionTypes

(* one iteration of the loop of process_chunk_streaming *)
ProcessRead(st, read) ==
    IF st.raised THEN st
    ELSE IF ~ConfidentlyMapped(read) THEN st
    ELSE IF ~HasBarcodes(read) THEN st
    ELSE
      LET cb == get_tag(read, "CB")
          ub == get_tag(read, "UB")
          umi_hash == hash_umi(cb, ub)
      IN  IF umi_hash \in st.local_umi_seen THEN st
          ELSE
            LET seen == [st EXCEPT !.local_umi_seen = @ \cup {umi_hash}]
                region_type == IF has_tag(read, "RE") THEN get_tag(read, "RE")
                               ELSE <<>>
            IN  IF region_type = KeyError THEN [seen EXCEPT !.raised = TRUE]
                ELSE IF ValidRegion(region_type)
                THEN [seen EXCEPT !.umi_records = Append(@,
                        [cb |-> cb, ub |-> ub, region_type |-> region_type,
                         umi_hash |-> umi_hash])]
                ELSE seen

(* for read in bam.fetch(...): the iterator raises OSError at a record it
   cannot decode, and no except clause is around the loop *)
RECURSIVE ExtractLoop(_, _)
ExtractLoop(st, reads) ==
    IF reads = <<>> THEN st
    ELSE IF Unreadable(Head(reads)) THEN [st EXCEPT !.raised = TRUE]
    ELSE ExtractLoop(ProcessRead(st, Head(reads)), Tail(reads))

(* process_chunk_streaming: the worker's whole run on one chunk *)
process_chunk_streaming(file, c) ==
    ExtractLoop(EmptyExtract, fetch(file, c.reference, c.start, c.end))

(* end = start + bin_size, without the min *)
RECURSIVE RefChunksUnclamped(_, _, _, _)
RefChunksUnclamped(ref, length, start, size) ==
    IF start >= length THEN <<>>
    ELSE <<[reference |-> ref, start |-> start, end |-> start + size]>>
         \o RefChunksUnclamped(ref, length, start + size, size)

(* range(0, length, bin_size) of one reference *)
RECURSIVE RefChunks(_, _, _, _)
RefChunks(ref, length, start, size) ==
    IF start >= length THEN <<>>
    ELSE <<[reference |-> ref, start |-> start,
            end |-> Min(start + size, length)]>>
         \o RefChunks(ref, length, start + size, size)

RECURSIVE get_bam_chunks(_, _)
get_bam_chunks(refs, size) ==
    IF refs = <<>> THEN <<>>
    ELSE RefChunks(Head(refs)[1], Head(refs)[2], 0, size)
         \o get_bam_chunks(Tail(refs), size)

(* cell_data is a dict: its items in insertion order *)
DefaultCounts == [t \in RegionTypes |-> 0]

Keys(d) == {d[k].cb : k \in DOMAIN d}

IndexOf(d, cb) == CHOOSE k \in DOMAIN d : d[k].cb = cb

Counts(d, cb) == IF cb \in Keys(d) THEN d[IndexOf(d, cb)].counts
                 ELSE DefaultCounts

(* a new key is set to the default and its first record is not counted *)
IncrAfterFirst(d, cb, region_type, n) ==
    IF cb \in Keys(d)
    THEN [d EXCEPT ![IndexOf(d, cb)].counts[region_type] = @ + n]
    ELSE Append(d, [cb |-> cb, counts |-> DefaultCounts])

(* a new key goes to the front of the dict *)
IncrAtFront(d, cb, region_type, n) ==
    IF cb \in Keys(d)
    THEN [d EXCEPT ![IndexOf(d, cb)].counts[region_type] = @ + n]
    ELSE <<[cb |-> cb, counts |-> [DefaultCounts EXCEPT ![region_type] = n]]>>
         \o d

(* d[cb][region_type] += n on a defaultdict *)
Incr(d, cb, region_type, n) ==
    IF cb \in Keys(d)
    THEN [d EXCEPT ![IndexOf(d, cb)].counts[region_type] = @ + n]
    ELSE Append(d, [cb |-> cb,
                    counts |-> [DefaultCounts EXCEPT ![region_type] = n]])

(* the record is counted and its hash is not added to global_umi_seen *)
MergeRecordUnseen(ms, record) ==
    IF record.umi_hash \in ms.global_umi_seen THEN ms
    ELSE [global_umi_seen |-> ms.global_umi_seen,
          total_records_after |-> ms.total_records_after + 1,
          cell_data |-> Incr(ms.cell_data, record.cb, record.region_type, 1),
          counted |-> Append(ms.counted, record)]

(* the record is counted without a look at global_umi_seen *)
MergeRecordNoDedup(ms, record) ==
    [global_umi_seen |-> ms.global_umi_seen \cup {record.umi_hash},
     total_records_after |-> ms.total_records_after + 1,
     cell_data |-> Incr(ms.cell_data, record.cb, record.region_type, 1),
     counted |-> Append(ms.counted, record)]

(* one iteration of the inner loop of merge_chunk_results_streaming *)
MergeRecord(ms, record) ==
    IF record.umi_hash \in ms.global_umi_seen THEN ms
    ELSE [global_umi_seen |-> ms.global_umi_seen \cup {record.umi_hash},
          total_records_after |-> ms.total_records_after + 1,
          cell_data |-> Incr(ms.cell_data, record.cb, record.region_type, 1),
          counted |-> Append(ms.counted, record)]

(* for i, chunk_records in enumerate(chunk_results) ... return dict(cell_data) *)
RECURSIVE MergeRecords(_, _)
MergeRecords(ms, records) ==
    IF records = <<>> THEN ms
    ELSE MergeRecords(MergeRecord(ms, Head(records)), Tail(records))

RECURSIVE MergeChunks(_, _)
MergeChunks(ms, results) ==
    IF results = <<>> THEN ms
    ELSE MergeChunks(MergeRecords(ms, Head(results)), Tail(results))

EmptyMerge == [global_umi_seen |-> {}, total_records_after |-> 0,
               cell_data |-> <<>>, counted |-> <<>>]

merge_chunk_results_streaming(results) ==
    MergeChunks(EmptyMerge, results).cell_data

(* main, run by one worker that takes the chunks in order *)
RunSequential(file, refs, size) ==
    LET cs == get_bam_chunks(refs, size)
    IN  merge_chunk_results_streaming(
            [i \in DOMAIN cs |-> process_chunk_streaming(file, cs[i]).umi_records])

-----------------------------------------------------------------------------
(* mp.Pool.map *)

(* a task counts as done as soon as a worker has taken it *)
FinishedOrTaken == {"ok", "io_error", "raised", "running"}

Finished == {"ok", "io_error", "raised"}

(* a worker that has taken a task never becomes free again *)
EverTaken(t) == {i \in DOMAIN t : t[i] # "queued"}

Running(t) == {i \in DOMAIN t : t[i] = "running"}

(* a free worker takes the first task of the list again *)
FirstTask(t) == CHOOSE i \in DOMAIN t : \A j \in DOMAIN t : i <= j

(* the task queue is first in, first out: the next task a free worker takes *)
NextQueued(t) == CHOOSE i \in DOMAIN t :
                    /\ t[i] = "queued"
                    /\ \A j \in DOMAIN t : j < i => t[j] # "queued"

(* as imap_unordered would: the value goes to the first free place *)
StoreResultAsCompleted(results, i, value) ==
    LET free == {k \in DOMAIN results : results[k] = <<>>}
        first == CHOOSE k \in free : \A j \in free : k <= j
    IN  [results EXCEPT ![first] = value]

(* map puts each task's value at the task's own index *)
StoreResult(results, i, value) == [results EXCEPT ![i] = value]

(* the exception of a task is dropped *)
MapNeverRaises(t) == FALSE

(* map re-raises the first exception of a task once every task is done *)
MapRaises(t) == \E i \in DOMAIN t : t[i] \in {"io_error", "raised"}

-----------------------------------------------------------------------------
(* The report *)

Header == <<"CB_cell_barcode", "total_reads", "exon_reads", "exon_prop",
            "intron_reads", "intron_prop", "intergenic_reads",
            "intergenic_prop">>

(* a / b of two ints: the fraction, or ZeroDivisionError *)
ZeroDivisionError == <<0, 0>>

TrueDiv(a, b) == IF b = 0 THEN ZeroDivisionError ELSE <<a, b>>

Zero == <<0, 1>>

(* the proportions without the test of total_reads *)
ReportRowUnguarded(cell_barcode, read_counts) ==
    LET total_reads == read_counts[E] + read_counts[N] + read_counts[I]
    IN  [cell_barcode |-> cell_barcode,
         total_reads |-> total_reads,
         exon_reads |-> read_counts[E],
         exon_prop |-> TrueDiv(read_counts[E], total_reads),
         intron_reads |-> read_counts[N],
         intron_prop |-> TrueDiv(read_counts[N], total_reads),
         intergenic_reads |-> read_counts[I],
         intergenic_prop |-> TrueDiv(read_counts[I], total_reads)]

(* the body of the loop of write_output_csv *)
ReportRow(cell_barcode, read_counts) ==
    LET exon_reads == read_counts[E]
        intron_reads == read_counts[N]
        intergenic_reads == read_counts[I]
        total_reads == exon_reads + intron_reads + intergenic_reads
        positive == total_reads > 0
    IN  [cell_barcode |-> cell_barcode,
         total_reads |-> total_reads,
         exon_reads |-> exon_reads,
         exon_prop |-> IF positive THEN TrueDiv(exon_reads, total_reads)
                       ELSE Zero,
         intron_reads |-> intron_reads,
         intron_prop |-> IF positive THEN TrueDiv(intron_reads, total_reads)
                         ELSE Zero,
         intergenic_reads |-> intergenic_reads,
         intergenic_prop |-> IF positive
                             THEN TrueDiv(intergenic_reads, total_reads)
                             ELSE Zero]

RowRaises(row) == ZeroDivisionError \in
    {row.exon_prop, row.intron_prop, row.intergenic_prop}

-----------------------------------------------------------------------------
(* calcReadTypeProp.py *)

(* the fields are taken by index, so that a row of three fields is counted *)
ProcessRowByIndex(d, row) ==
    IF Len(row) < 3 THEN d
    ELSE IF row[3] \in RegionTypes THEN Incr(d, row[1], row[3], 1)
    ELSE d

(* one iteration of the loop of process_chunk: a row that does not unpack
   into four fields raises ValueError, which the except clause reports *)
ProcessRow(d, row) ==
    IF Len(row) # 4 THEN d
    ELSE LET cell_barcode == row[1]
             region_type == row[3]
         IN  IF region_type \in RegionTypes
             THEN Incr(d, cell_barcode, region_type, 1)
             ELSE d

(* the counters of the cell are set to those of the result *)
CombineItemAssign(d, item) ==
    IF item.cb \in Keys(d)
    THEN [d EXCEPT ![IndexOf(d, item.cb)].counts = item.counts]
    ELSE Append(d, item)

(* for region_type, count in read_type_counts.items(): ... += count *)
CombineItem(d, item) ==
    Incr(Incr(Incr(d, item.cb, E, item.counts[E]),
              item.cb, N, item.counts[N]),
         item.cb, I, item.counts[I])

(* for cell_barcode, read_type_counts in result.items(): ... *)
RECURSIVE Combine(_, _)
Combine(d, result) ==
    IF result = <<>> THEN d
    ELSE Combine(CombineItem(d, Head(result)), Tail(result))

(* the body of the report loop of main *)
CalcReportRow(cell_barcode, read_type_counts) ==
    LET total_read_count == read_type_counts[E] + read_type_counts[N]
                            + read_type_counts[I]
        exon_read_count == read_type_counts[E]
        intron_read_count == read_type_counts[N]
        intergenic_read_count == read_type_counts[I]
    IN  [cell_barcode |-> cell_barcode,
         total_reads |-> total_read_count,
         exon_reads |-> exon_read_count,
         exon_prop |-> IF total_read_count > 0
                       THEN TrueDiv(exon_read_count, total_read_count)
                       ELSE Zero,
         intron_reads |-> intron_read_count,
         intron_prop |-> IF total_read_count > 0
                         THEN TrueDiv(intron_read_count, total_read_count)
                         ELSE Zero,
         intergenic_reads |-> intergenic_read_count,
         intergenic_prop |-> IF total_read_count > 0
                             THEN TrueDiv(intergenic_read_count,
                                          total_read_count)
                             ELSE Zero]

(* process_chunk: the loop over the rows of a chunk *)
RECURSIVE process_chunk(_, _)
process_chunk(d, rows) ==
    IF rows = <<>> THEN d
    ELSE process_chunk(ProcessRow(d, Head(rows)), Tail(rows))

(* list(itertools.islice(reader, chunk_size)) of a reader that has handed
   out pos rows *)
islice(rows, pos, n) == SubSeq(rows, pos + 1, Min(pos + n, Len(rows)))

(* main on a csv whose rows all come in one chunk *)
RunCalc(rows) == Combine(<<>>, process_chunk(<<>>, rows))

-----------------------------------------------------------------------------
(* gexBamTagsToCSV.py *)

TagsHeader == <<"CB_cell_barcode", "UB_umi_barcode", "RE_region_type",
                "GN_gene_name">>

(* md5 of f"{cb}:{ub}"; the digest is taken to be injective on the key
   strings of the model, so the key string stands for it *)
umi_key(cb, ub) == cb \o <<":">> \o ub

NoTemp == [exists |-> FALSE, rows |-> <<>>]

EmptyTemp == [rows |-> <<>>, umi_seen |-> {}]

(* one iteration of the loop of process_chunk_to_temp *)
WriteToTemp(st, read) ==
    IF read.mapping_quality # 255 THEN st
    ELSE IF ~(has_tag(read, "CB") /\ has_tag(read, "UB")) THEN st
    ELSE
      LET cb == get_tag(read, "CB")
          ub == get_tag(read, "UB")
          umi_hash == umi_key(cb, ub)
      IN  IF umi_hash \in st.umi_seen THEN st
          ELSE
            LET re == IF has_tag(read, "RE") THEN get_tag(read, "RE")
                      ELSE <<>>
                gn == IF has_tag(read, "GN") THEN get_tag(read, "GN")
                      ELSE <<>>
            IN  [rows |-> Append(st.rows, <<cb, ub, re, gn>>),
                 umi_seen |-> st.umi_seen \cup {umi_hash}]

RECURSIVE TempLoop(_, _)
TempLoop(st, reads) ==
    IF reads = <<>> THEN st
    ELSE TempLoop(WriteToTemp(st, Head(reads)), Tail(reads))

(* process_chunk_to_temp: the rows of the temp file and umi_seen *)
process_chunk_to_temp(file, c) ==
    TempLoop(EmptyTemp, fetch(file, c.reference, c.start, c.end))

(* one iteration of the inner loop of merge_temp_files *)
MergeTempRow(ms, row) ==
    LET cb == row[1]
        ub == row[2]
        h == umi_key(cb, ub)
    IN  IF h \notin ms.seen_global
        THEN [seen_global |-> ms.seen_global \cup {h},
              rows |-> Append(ms.rows, row)]
        ELSE ms

(* for row in reader: ... of one temp file *)
RECURSIVE MergeTempRows(_, _)
MergeTempRows(ms, rows) ==
    IF rows = <<>> THEN ms
    ELSE MergeTempRows(MergeTempRow(ms, Head(rows)), Tail(rows))

(* for temp_path in temp_paths: ... *)
RECURSIVE MergeTempFiles(_, _)
MergeTempFiles(ms, files) ==
    IF files = <<>> THEN ms
    ELSE MergeTempFiles(MergeTempRows(ms, Head(files)), Tail(files))

merge_temp_files(files) ==
    MergeTempFiles([seen_global |-> {}, rows |-> <<>>], files).rows

(* main, run by one worker that takes the chunks in order: the data rows
   of the final csv *)
RunTags(file, refs, size) ==
    LET cs == get_bam_chunks(refs, size)
    IN  merge_temp_files(
            [i \in DOMAIN cs |-> process_chunk_to_temp(file, cs[i]).rows])

-----------------------------------------------------------------------------
(* The inputs of the model *)

TagValues(tag) ==
    IF tag = "CB" THEN {<<>>, <<"A">>}
    ELSE IF tag = "UB" THEN {<<>>, <<"G">>}
    ELSE {E, N, I, <<"X">>}

TagMaps == UNION {
    {f \in [D -> UNION {TagValues(t) : t \in TagNames}] :
        \A t \in D : f[t] \in TagValues(t)} : D \in SUBSET TagNames}

(* a confidently mapped exonic read of cell A, molecule G *)
TypicalTags == [t \in TagNames |->
    IF t = "CB" THEN <<"A">> ELSE IF t = "UB" THEN <<"G">> ELSE E]

(* number of attributes in which a read differs from the typical read *)
Deviation(q, tags, len) ==
    Cardinality({t \in TagNames : t \notin DOMAIN tags
                                  \/ tags[t] # TypicalTags[t]})
    + (IF q = MAPQ_CONFIDENT THEN 0 ELSE 1)
    + (IF len = 1 THEN 0 ELSE 1)

(* the reads a reference of the given length can hold: every read that
   differs from the typical read in at most one attribute *)
Reads(ref, length) ==
    {[reference_name |-> ref, reference_start |-> s,
      reference_end |-> s + len, mapping_quality |-> q, tags |-> tags] :
        s \in 0..(length - 1), len \in {1, 2},
        q \in {MAPQ_CONFIDENT, 0}, tags \in TagMaps}

ReadSet(ref, length) ==
    {r \in Reads(ref, length) :
        /\ r.reference_end <= length
        /\ Deviation(r.mapping_quality, r.tags,
                     r.reference_end - r.reference_start) <= 1}

(* a coordinate-sorted file *)
Sorted(file) == \A k \in 1..(Len(file) - 1) :
    file[k].reference_start <= file[k + 1].reference_start

Files(ref, length) ==
    UNION {{f \in [1..n -> ReadSet(ref, length)] : Sorted(f)} : n \in 0..MaxReads}

TagsIdle ==
    /\ tags_pc = "idle"
    /\ temp_files = <<>>
    /\ umi_hashes_per_worker = <<>>
    /\ total_umi_seen = {}
    /\ seen_global = {}
    /\ final_output = NoFile
    /\ temp_i = 1

GexIdle ==
    /\ TagsIdle
    /\ input_bam = IndexedFile
    /\ bam = <<>>
    /\ references = <<>>
    /\ bin_size = 1
    /\ num_threads = 1
    /\ pc = "idle"
    /\ chunks = <<>>
    /\ task = <<>>
    /\ chunk_results = <<>>
    /\ out = NoFile

ImapIdle ==
    /\ reader = <<>>
    /\ reader_pos = 0
    /\ chunk_size = 1
    /\ imap_args = <<>>
    /\ imap_task = <<>>
    /\ imap_result = <<>>

CalcIdle ==
    /\ ImapIdle
    /\ chunk = <<>>
    /\ row_k = 0
    /\ read_type_dict = <<>>
    /\ combined_dict = <<>>
    /\ calc_pc = "idle"
    /\ calc_out = NoFile

MergeInit ==
    /\ merge_i = 1
    /\ merge_j = 0
    /\ global_umi_seen = {}
    /\ cell_data = <<>>
    /\ total_records_before = 0
    /\ total_records_after = 0
    /\ counted = <<>>

(* main has found the input file: one reference, any coordinate-sorted
   file on it, any bin size, any worker count *)
GexInit ==
    /\ input_bam = IndexedFile
    /\ references = << <<RefName(1), MaxRefLen>> >>
    /\ bam \in Files(RefName(1), MaxRefLen)
    /\ bin_size \in 1..MaxRefLen
    /\ num_threads \in 1..MaxThreads
    /\ pc = "start"
    /\ chunks = <<>>
    /\ task = <<>>
    /\ chunk_results = <<>>
    /\ MergeInit
    /\ out = NoFile
    /\ CalcIdle
    /\ TagsIdle

(* the rows of a chunk of the input csv: cell, molecule, region, gene; the
   last one is a malformed row of three fields *)
CsvRows ==
    {<<cb, <<"G">>, re, <<>>>> : cb \in {<<"A">>, <<"C">>},
                                re \in {E, N, I, <<>>}}
    \cup {<<<<"A">>, <<"G">>, E>>}

CsvChunks == UNION {[1..n -> CsvRows] : n \in 0..MaxRows}

(* calcReadTypeProp: process_chunk has been given a chunk of the csv *)
CalcInit ==
    /\ GexIdle
    /\ ImapIdle
    /\ MergeInit
    /\ chunk \in CsvChunks
    /\ row_k = 0
    /\ read_type_dict = <<>>
    /\ combined_dict = <<>>
    /\ calc_pc = "process"
    /\ calc_out = NoFile

(* one of the two commands is run *)
Init == GexInit \/ CalcInit

-----------------------------------------------------------------------------
(* gexBamReadTypeProp.main *)

(* chunks = get_bam_chunks(input_bam) *)
GetChunks ==
    /\ pc = "start"
    /\ chunks' = get_bam_chunks(references, bin_size)
    /\ task' = [i \in DOMAIN chunks' |-> "queued"]
    /\ chunk_results' = [i \in DOMAIN chunks' |-> <<>>]
    /\ pc' = "pool"
    /\ UNCHANGED <<imapVars, tagsVars, inputVars, mergeVars, out, calcVars>>

(* a free worker takes the next task of pool.map *)
Dispatch ==
    /\ pc = "pool"
    /\ \E i \in DOMAIN task : task[i] = "queued"
    /\ Cardinality(Running(task)) < num_threads
    /\ task' = [task EXCEPT ![NextQueued(task)] = "running"]
    /\ UNCHANGED <<imapVars, tagsVars, inputVars, pc, chunks, chunk_results, mergeVars, out,
                   calcVars>>

(* a worker returns from process_chunk_streaming; bam.fetch needs the
   index of the file *)
Complete(i) ==
    /\ pc = "pool"
    /\ task[i] = "running"
    /\ input_bam.has_index
    /\ LET st == process_chunk_streaming(bam, chunks[i])
       IN  IF st.raised
           THEN /\ task' = [task EXCEPT ![i] = "raised"]
                /\ UNCHANGED chunk_results
           ELSE /\ task' = [task EXCEPT ![i] = "ok"]
                /\ chunk_results' = StoreResult(chunk_results, i, st.umi_records)
    /\ UNCHANGED <<imapVars, tagsVars, inputVars, pc, chunks, mergeVars, out, calcVars>>

(* pysam raises in a worker: the file cannot be opened or fetched *)
FailIO(i) ==
    /\ pc = "pool"
    /\ task[i] = "running"
    /\ task' = [task EXCEPT ![i] = "io_error"]
    /\ UNCHANGED <<imapVars, tagsVars, inputVars, pc, chunks, chunk_results, mergeVars, out,
                   calcVars>>

(* pool.map returns, or re-raises and main ends with the exception *)
MapReturn ==
    /\ pc = "pool"
    /\ \A i \in DOMAIN task : task[i] \in Finished
    /\ pc' = IF MapRaises(task) THEN "failed" ELSE "merge"
    /\ UNCHANGED <<imapVars, tagsVars, inputVars, poolVars, mergeVars, out, calcVars>>

(* merge_chunk_results_streaming: the outer loop takes the next chunk *)
MergeBegin ==
    /\ pc = "merge"
    /\ merge_i <= Len(chunk_results)
    /\ merge_j = 0
    /\ total_records_before' = total_records_before + Len(chunk_results[merge_i])
    /\ merge_j' = 1
    /\ UNCHANGED <<imapVars, tagsVars, inputVars, pc, poolVars, merge_i, global_umi_seen, cell_data,
                   total_records_after, counted, out, calcVars>>

(* merge_chunk_results_streaming: one record of the chunk *)
MergeStep ==
    /\ pc = "merge"
    /\ merge_i <= Len(chunk_results)
    /\ merge_j >= 1
    /\ merge_j <= Len(chunk_results[merge_i])
    /\ LET ms == MergeRecord(
                    [global_umi_seen |-> global_umi_seen,
                     total_records_after |-> total_records_after,
                     cell_data |-> cell_data, counted |-> counted],
                    chunk_results[merge_i][merge_j])
       IN  /\ global_umi_seen' = ms.global_umi_seen
           /\ total_records_after' = ms.total_records_after
           /\ cell_data' = ms.cell_data
           /\ counted' = ms.counted
    /\ merge_j' = merge_j + 1
    /\ UNCHANGED <<imapVars, tagsVars, inputVars, pc, poolVars, merge_i, total_records_before, out,
                   calcVars>>

(* merge_chunk_results_streaming: chunk_records.clear() *)
MergeEnd ==
    /\ pc = "merge"
    /\ merge_i <= Len(chunk_results)
    /\ merge_j > Len(chunk_results[merge_i])
    /\ chunk_results' = [chunk_results EXCEPT ![merge_i] = <<>>]
    /\ merge_i' = merge_i + 1
    /\ merge_j' = 0
    /\ UNCHANGED <<imapVars, tagsVars, inputVars, pc, chunks, task, global_umi_seen, cell_data,
                   total_records_before, total_records_after, counted, out,
                   calcVars>>

(* merge_chunk_results_streaming returns dict(cell_data) *)
MergeReturn ==
    /\ pc = "merge"
    /\ merge_i > Len(chunk_results)
    /\ pc' = "write"
    /\ UNCHANGED <<imapVars, tagsVars, inputVars, poolVars, mergeVars, out, calcVars>>

(* write_output_csv: open(output_csv, "w") and the header row *)
OpenOutput ==
    /\ pc = "write"
    /\ out' = [exists |-> TRUE, header |-> Header, rows |-> <<>>]
    /\ pc' = "writing"
    /\ UNCHANGED <<imapVars, tagsVars, inputVars, poolVars, mergeVars, calcVars>>

(* write_output_csv: the row of the next cell *)
WriteRow ==
    /\ pc = "writing"
    /\ Len(out.rows) < Len(cell_data)
    /\ LET item == cell_data[Len(out.rows) + 1]
           row == ReportRow(item.cb, item.counts)
       IN  IF RowRaises(row)
           THEN /\ pc' = "failed"
                /\ UNCHANGED out
           ELSE /\ out' = [out EXCEPT !.rows = Append(@, row)]
                /\ UNCHANGED pc
    /\ UNCHANGED <<imapVars, tagsVars, inputVars, poolVars, mergeVars, calcVars>>

(* write_output_csv returns and main ends *)
CloseOutput ==
    /\ pc = "writing"
    /\ Len(out.rows) = Len(cell_data)
    /\ pc' = "done"
    /\ UNCHANGED <<imapVars, tagsVars, inputVars, poolVars, mergeVars, out, calcVars>>

-----------------------------------------------------------------------------
(* calcReadTypeProp *)

(* process_chunk: the next row of the chunk *)
CalcRow ==
    /\ calc_pc = "process"
    /\ row_k < Len(chunk)
    /\ read_type_dict' = ProcessRow(read_type_dict, chunk[row_k + 1])
    /\ row_k' = row_k + 1
    /\ UNCHANGED <<imapVars, tagsVars, inputVars, pc, poolVars, mergeVars, out, chunk,
                   combined_dict, calc_pc, calc_out>>

(* process_chunk returns and main adds the result to combined_dict *)
CalcCombine ==
    /\ calc_pc = "process"
    /\ row_k = Len(chunk)
    /\ combined_dict' = Combine(combined_dict, read_type_dict)
    /\ calc_pc' = "write"
    /\ UNCHANGED <<imapVars, tagsVars, inputVars, pc, poolVars, mergeVars, out, chunk, row_k,
                   read_type_dict, calc_out>>

(* main: open(output_csv, "w") and the header row *)
CalcOpen ==
    /\ calc_pc = "write"
    /\ calc_out' = [exists |-> TRUE, header |-> Header, rows |-> <<>>]
    /\ calc_pc' = "writing"
    /\ UNCHANGED <<imapVars, tagsVars, inputVars, pc, poolVars, mergeVars, out, chunk, row_k,
                   read_type_dict, combined_dict>>

(* main: the row of the next cell *)
CalcWriteRow ==
    /\ calc_pc = "writing"
    /\ Len(calc_out.rows) < Len(combined_dict)
    /\ LET item == combined_dict[Len(calc_out.rows) + 1]
           row == CalcReportRow(item.cb, item.counts)
       IN  IF RowRaises(row)
           THEN /\ calc_pc' = "failed"
                /\ UNCHANGED calc_out
           ELSE /\ calc_out' = [calc_out EXCEPT !.rows = Append(@, row)]
                /\ UNCHANGED calc_pc
    /\ UNCHANGED <<imapVars, tagsVars, inputVars, pc, poolVars, mergeVars, out, chunk, row_k,
                   read_type_dict, combined_dict>>

(* main: the file is closed and main ends *)
CalcClose ==
    /\ calc_pc = "writing"
    /\ Len(calc_out.rows) = Len(combined_dict)
    /\ calc_pc' = "done"
    /\ UNCHANGED <<imapVars, tagsVars, inputVars, pc, poolVars, mergeVars, out, chunk, row_k,
                   read_type_dict, combined_dict, calc_out>>

Next ==
    \/ GetChunks
    \/ Dispatch
    \/ \E i \in DOMAIN task : Complete(i)
    \/ \E i \in DOMAIN task : FailIO(i)
    \/ MapReturn
    \/ MergeBegin
    \/ MergeStep
    \/ MergeEnd
    \/ MergeReturn
    \/ OpenOutput
    \/ WriteRow
    \/ CloseOutput
    \/ CalcRow
    \/ CalcCombine
    \/ CalcOpen
    \/ CalcWriteRow
    \/ CalcClose

Spec == Init /\ [][Next]_vars

-----------------------------------------------------------------------------
(* The partitioner on any list of references *)

RefLists ==
    UNION {{[k \in 1..n |-> <<RefName(k), f[k]>>] :
                f \in [1..n -> (-1)..MaxLength]} : n \in 0..MaxRefs}

ChunksInit ==
    /\ input_bam = IndexedFile
    /\ references \in RefLists
    /\ bin_size \in 1..MaxBinSize
    /\ bam = <<>>
    /\ num_threads = 1
    /\ pc = "start"
    /\ chunks = <<>>
    /\ task = <<>>
    /\ chunk_results = <<>>
    /\ MergeInit
    /\ out = NoFile
    /\ CalcIdle
    /\ TagsIdle

SpecChunks == ChunksInit /\ [][GetChunks]_vars

-----------------------------------------------------------------------------
(* The reporter on any counters *)

CellName(k) == <<"cell", k>>

(* the dict of n cells whose counters are those of f *)
DictOf(n, f) == [k \in 1..n |-> [cb |-> CellName(k), counts |-> f[k]]]

CountTriples == [RegionTypes -> 0..MaxCount]

ReportInit ==
    \/ /\ input_bam = IndexedFile
       /\ bam = <<>>
       /\ references = <<>>
       /\ bin_size = 1
       /\ num_threads = 1
       /\ chunks = <<>>
       /\ task = <<>>
       /\ chunk_results = <<>>
       /\ merge_i = 1
       /\ merge_j = 0
       /\ global_umi_seen = {}
       /\ total_records_before = 0
       /\ total_records_after = 0
       /\ counted = <<>>
       /\ \E n \in 0..MaxCells : \E f \in [1..n -> CountTriples] :
              cell_data = DictOf(n, f)
       /\ pc = "write"
       /\ out = NoFile
       /\ CalcIdle
       /\ TagsIdle
    \/ /\ GexIdle
       /\ ImapIdle
       /\ MergeInit
       /\ chunk = <<>>
       /\ row_k = 0
       /\ read_type_dict = <<>>
       /\ \E n \in 0..MaxCells : \E f \in [1..n -> CountTriples] :
              combined_dict = DictOf(n, f)
       /\ calc_pc = "write"
       /\ calc_out = NoFile

ReportNext ==
    \/ OpenOutput
    \/ WriteRow
    \/ CloseOutput
    \/ CalcOpen
    \/ CalcWriteRow
    \/ CalcClose

SpecReport == ReportInit /\ [][ReportNext]_vars

-----------------------------------------------------------------------------
(* The pipeline on the records of one molecule *)

(* the confidently mapped reads of the typical molecule *)
MoleculeReads(ref, length) ==
    {r \in ReadSet(ref, length) :
        /\ r.mapping_quality = MAPQ_CONFIDENT
        /\ {"CB", "UB"} \subseteq DOMAIN r.tags
        /\ r.tags["CB"] = TypicalTags["CB"]
        /\ r.tags["UB"] = TypicalTags["UB"]}

DupFiles(ref, length) ==
    {f \in [1..(MaxReads + 1) -> MoleculeReads(ref, length)] : Sorted(f)}

DupInit ==
    /\ input_bam = IndexedFile
    /\ references = << <<RefName(1), MaxRefLen>> >>
    /\ bam \in DupFiles(RefName(1), MaxRefLen)
    /\ bin_size \in 1..MaxRefLen
    /\ num_threads \in 1..MaxThreads
    /\ pc = "start"
    /\ chunks = <<>>
    /\ task = <<>>
    /\ chunk_results = <<>>
    /\ MergeInit
    /\ out = NoFile
    /\ CalcIdle
    /\ TagsIdle

GexNext ==
    \/ GetChunks
    \/ Dispatch
    \/ \E i \in DOMAIN task : Complete(i)
    \/ \E i \in DOMAIN task : FailIO(i)
    \/ MapReturn
    \/ MergeBegin
    \/ MergeStep
    \/ MergeEnd
    \/ MergeReturn
    \/ OpenOutput
    \/ WriteRow
    \/ CloseOutput

SpecDup == DupInit /\ [][GexNext]_vars

-----------------------------------------------------------------------------
(* gexBamTagsToCSV.main *)

(* barcodes that hold the separator of the dedup key *)
TagsTagValues(tag) ==
    IF tag = "CB" THEN {<<"A">>, <<"A", ":">>}
    ELSE IF tag = "UB" THEN {<<"G">>, <<":", "G">>}
    ELSE {E, N}

TagsTagMaps == UNION {
    {f \in [D -> UNION {TagsTagValues(t) : t \in TagNames}] :
        \A t \in D : f[t] \in TagsTagValues(t)} : D \in SUBSET TagNames}

TagsReadSet(ref, length) ==
    {r \in {[reference_name |-> ref, reference_start |-> s,
             reference_end |-> s + len, mapping_quality |-> q,
             tags |-> tags] :
                s \in 0..(length - 1), len \in {1, 2},
                q \in {MAPQ_CONFIDENT, 0}, tags \in TagsTagMaps} :
        /\ r.reference_end <= length
        /\ Deviation(r.mapping_quality, r.tags,
                     r.reference_end - r.reference_start) <= 1}

TagsFiles(ref, length) ==
    UNION {{f \in [1..n -> TagsReadSet(ref, length)] : Sorted(f)} :
           n \in 0..MaxReads}

(* main has found the input file *)
TagsInit ==
    /\ input_bam = IndexedFile
    /\ references = << <<RefName(1), MaxRefLen>> >>
    /\ bam \in TagsFiles(RefName(1), MaxRefLen)
    /\ bin_size \in 1..MaxRefLen
    /\ num_threads \in 1..MaxThreads
    /\ pc = "idle"
    /\ chunks = <<>>
    /\ task = <<>>
    /\ chunk_results = <<>>
    /\ MergeInit
    /\ out = NoFile
    /\ CalcIdle
    /\ tags_pc = "start"
    /\ temp_files = <<>>
    /\ umi_hashes_per_worker = <<>>
    /\ total_umi_seen = {}
    /\ seen_global = {}
    /\ final_output = NoFile
    /\ temp_i = 1

gexVars == <<pc, chunk_results, mergeVars, out>>

(* chunks = get_bam_chunks(input_bam) *)
TagsGetChunks ==
    /\ tags_pc = "start"
    /\ chunks' = get_bam_chunks(references, bin_size)
    /\ task' = [i \in DOMAIN chunks' |-> "queued"]
    /\ temp_files' = [i \in DOMAIN chunks' |-> NoTemp]
    /\ umi_hashes_per_worker' = [i \in DOMAIN chunks' |-> {}]
    /\ tags_pc' = "pool"
    /\ UNCHANGED <<imapVars, inputVars, gexVars, calcVars, total_umi_seen, seen_global,
                   final_output, temp_i>>

(* a free worker takes the next task of pool.map; process_chunk_to_temp
   makes its temp file with mkstemp *)
TagsDispatch ==
    /\ tags_pc = "pool"
    /\ \E i \in DOMAIN task : task[i] = "queued"
    /\ Cardinality(Running(task)) < num_threads
    /\ task' = [task EXCEPT ![NextQueued(task)] = "running"]
    /\ temp_files' = [temp_files EXCEPT ![NextQueued(task)] =
                         [exists |-> TRUE, rows |-> <<>>]]
    /\ UNCHANGED <<imapVars, inputVars, gexVars, calcVars, chunks, tags_pc,
                   umi_hashes_per_worker, total_umi_seen, seen_global,
                   final_output, temp_i>>

(* a worker returns temp_path, umi_seen *)
TagsComplete(i) ==
    /\ tags_pc = "pool"
    /\ task[i] = "running"
    /\ input_bam.has_index
    /\ LET st == process_chunk_to_temp(bam, chunks[i])
       IN  /\ temp_files' = [temp_files EXCEPT ![i].rows = st.rows]
           /\ umi_hashes_per_worker' =
                 [umi_hashes_per_worker EXCEPT ![i] = st.umi_seen]
    /\ task' = [task EXCEPT ![i] = "ok"]
    /\ UNCHANGED <<imapVars, inputVars, gexVars, calcVars, chunks, tags_pc,
                   total_umi_seen, seen_global, final_output, temp_i>>

(* pysam raises in a worker; its temp file stays *)
TagsFailIO(i) ==
    /\ tags_pc = "pool"
    /\ task[i] = "running"
    /\ task' = [task EXCEPT ![i] = "io_error"]
    /\ UNCHANGED <<imapVars, inputVars, gexVars, calcVars, chunks, tags_pc, temp_files,
                   umi_hashes_per_worker, total_umi_seen, seen_global,
                   final_output, temp_i>>

(* pool.map returns, or re-raises and main ends with the exception *)
TagsMapReturn ==
    /\ tags_pc = "pool"
    /\ \A i \in DOMAIN task : task[i] \in Finished
    /\ tags_pc' = IF MapRaises(task) THEN "failed" ELSE "unzip"
    /\ UNCHANGED <<imapVars, inputVars, gexVars, calcVars, chunks, task, temp_files,
                   umi_hashes_per_worker, total_umi_seen, seen_global,
                   final_output, temp_i>>

(* main unzips results into temp_paths and umi_hashes_per_worker, which
   raises ValueError when results is empty; total_umi_seen is the union of
   umi_hashes_per_worker *)
TagsUnzip ==
    /\ tags_pc = "unzip"
    /\ IF chunks = <<>>
       THEN /\ tags_pc' = "failed"
            /\ UNCHANGED total_umi_seen
       ELSE /\ tags_pc' = "merge"
            /\ total_umi_seen' = UNION {umi_hashes_per_worker[i] :
                                           i \in DOMAIN umi_hashes_per_worker}
    /\ UNCHANGED <<imapVars, inputVars, gexVars, calcVars, chunks, task, temp_files,
                   umi_hashes_per_worker, seen_global, final_output, temp_i>>

(* merge_temp_files: open(final_output_path, "w") and the header row *)
TagsMergeOpen ==
    /\ tags_pc = "merge"
    /\ seen_global' = {}
    /\ final_output' = [exists |-> TRUE, header |-> TagsHeader, rows |-> <<>>]
    /\ temp_i' = 1
    /\ tags_pc' = "merging"
    /\ UNCHANGED <<imapVars, inputVars, gexVars, calcVars, chunks, task, temp_files,
                   umi_hashes_per_worker, total_umi_seen>>

(* merge_temp_files: the rows of the next temp file, then os.remove *)
TagsMergeFile ==
    /\ tags_pc = "merging"
    /\ temp_i <= Len(temp_files)
    /\ LET ms == MergeTempRows([seen_global |-> seen_global,
                                rows |-> final_output.rows],
                               temp_files[temp_i].rows)
       IN  /\ seen_global' = ms.seen_global
           /\ final_output' = [final_output EXCEPT !.rows = ms.rows]
    /\ temp_files' = [temp_files EXCEPT ![temp_i] = NoTemp]
    /\ temp_i' = temp_i + 1
    /\ UNCHANGED <<imapVars, inputVars, gexVars, calcVars, chunks, task, tags_pc,
                   umi_hashes_per_worker, total_umi_seen>>

(* merge_temp_files returns and main ends *)
TagsMergeReturn ==
    /\ tags_pc = "merging"
    /\ temp_i > Len(temp_files)
    /\ tags_pc' = "done"
    /\ UNCHANGED <<imapVars, inputVars, gexVars, calcVars, chunks, task, temp_files,
                   umi_hashes_per_worker, total_umi_seen, seen_global,
                   final_output, temp_i>>

TagsNext ==
    \/ TagsGetChunks
    \/ TagsDispatch
    \/ \E i \in DOMAIN task : TagsComplete(i)
    \/ \E i \in DOMAIN task : TagsFailIO(i)
    \/ TagsMapReturn
    \/ TagsUnzip
    \/ TagsMergeOpen
    \/ TagsMergeFile
    \/ TagsMergeReturn

SpecTags == TagsInit /\ [][TagsNext]_vars

-----------------------------------------------------------------------------
(* The pipeline with a bad input path or a destination that cannot be
   written *)

(* main: if not os.path.exists(input_bam): raise FileNotFoundError *)
Validate ==
    /\ pc = "validate"
    /\ pc' = IF input_bam.exists THEN "start" ELSE "failed"
    /\ UNCHANGED <<imapVars, tagsVars, inputVars, poolVars, mergeVars, out, calcVars>>

(* write_output_csv: open(output_csv, "w") raises OSError; nothing catches
   it *)
FailOpen ==
    /\ pc = "write"
    /\ pc' = "failed"
    /\ UNCHANGED <<imapVars, tagsVars, inputVars, poolVars, mergeVars, out, calcVars>>

(* write_output_csv: writer.writerow raises OSError; the with statement
   closes the file and nothing removes it *)
FailWrite ==
    /\ pc = "writing"
    /\ Len(out.rows) < Len(cell_data)
    /\ pc' = "failed"
    /\ UNCHANGED <<imapVars, tagsVars, inputVars, poolVars, mergeVars, out, calcVars>>

(* main is called with any input path *)
FaultInit ==
    /\ input_bam \in {IndexedFile, UnindexedFile, MissingFile}
    /\ references = IF input_bam.exists THEN << <<RefName(1), MaxRefLen>> >>
                    ELSE <<>>
    /\ bam \in IF input_bam.exists THEN Files(RefName(1), MaxRefLen)
               ELSE {<<>>}
    /\ bin_size \in 1..MaxRefLen
    /\ num_threads \in 1..MaxThreads
    /\ pc = "validate"
    /\ chunks = <<>>
    /\ task = <<>>
    /\ chunk_results = <<>>
    /\ MergeInit
    /\ out = NoFile
    /\ CalcIdle
    /\ TagsIdle

FaultNext ==
    \/ Validate
    \/ GexNext
    \/ FailOpen
    \/ FailWrite

SpecFault == FaultInit /\ [][FaultNext]_vars

-----------------------------------------------------------------------------
(* The pipeline when every step that can be taken is taken in the end: main
   is a sequential program and a worker that has a task runs it to its end *)

TypicalRead(ref, start, cb) ==
    [reference_name |-> ref, reference_start |-> start,
     reference_end |-> start + 1, mapping_quality |-> MAPQ_CONFIDENT,
     tags |-> [TypicalTags EXCEPT !["CB"] = cb]]

(* a file with a counted record at every coordinate *)
LiveInit ==
    /\ input_bam = IndexedFile
    /\ references = << <<RefName(1), MaxRefLen>> >>
    /\ \E f \in [1..MaxRefLen -> TagValues("CB")] :
          bam = [k \in 1..MaxRefLen |-> TypicalRead(RefName(1), k - 1, f[k])]
    /\ bin_size \in 1..MaxRefLen
    /\ num_threads \in 1..MaxThreads
    /\ pc = "start"
    /\ chunks = <<>>
    /\ task = <<>>
    /\ chunk_results = <<>>
    /\ MergeInit
    /\ out = NoFile
    /\ CalcIdle
    /\ TagsIdle

SpecLive == LiveInit /\ [][GexNext]_vars /\ WF_vars(GexNext)

-----------------------------------------------------------------------------
(* The pipeline on four records: two of molecule 1 of cell A, both exonic,
   one of molecule 2 of cell A, intronic, one of molecule 3 of cell B,
   intergenic, all confidently mapped *)

ScenarioTags ==
    << [CB |-> <<"A">>, UB |-> <<"1">>, RE |-> E],
       [CB |-> <<"A">>, UB |-> <<"1">>, RE |-> E],
       [CB |-> <<"A">>, UB |-> <<"2">>, RE |-> N],
       [CB |-> <<"B">>, UB |-> <<"3">>, RE |-> I] >>

Orders(n) == {p \in [1..n -> 1..n] : \A i, j \in 1..n : p[i] = p[j] => i = j}

(* the four records in any file order, at any coordinates, each one
   coordinate long or all of them two *)
ScenarioInit ==
    /\ input_bam = IndexedFile
    /\ references = << <<RefName(1), MaxRefLen>> >>
    /\ \E p \in Orders(Len(ScenarioTags)) :
       \E at \in [DOMAIN ScenarioTags -> 0..(MaxRefLen - 1)] :
       \E span \in {1, 2} :
          /\ \A k \in 1..(Len(ScenarioTags) - 1) : at[k] <= at[k + 1]
          /\ bam = [k \in DOMAIN ScenarioTags |->
                      [reference_name |-> RefName(1),
                       reference_start |-> at[k],
                       reference_end |-> Min(at[k] + span, MaxRefLen),
                       mapping_quality |-> MAPQ_CONFIDENT,
                       tags |-> ScenarioTags[p[k]]]]
    /\ bin_size \in 1..MaxRefLen
    /\ num_threads \in 1..MaxThreads
    /\ pc = "start"
    /\ chunks = <<>>
    /\ task = <<>>
    /\ chunk_results = <<>>
    /\ MergeInit
    /\ out = NoFile
    /\ CalcIdle
    /\ TagsIdle

SpecScenario == ScenarioInit /\ [][GexNext]_vars

-----------------------------------------------------------------------------
(* The pipeline on a file that holds records that cannot be decoded *)

CorruptRead(ref, start) ==
    [reference_name |-> ref, reference_start |-> start,
     reference_end |-> start + 1, mapping_quality |-> 0,
     tags |-> [t \in {} |-> <<>>], corrupt |-> TRUE]

(* counted records of the cells A and B, and records that cannot be decoded *)
CorruptReadSet(ref, length) ==
    {TypicalRead(ref, s, cb) : s \in 0..(length - 1), cb \in {<<"A">>, <<"B">>}}
    \cup {CorruptRead(ref, s) : s \in 0..(length - 1)}

CorruptFiles(ref, length) ==
    UNION {{f \in [1..n -> CorruptReadSet(ref, length)] : Sorted(f)} :
           n \in 0..MaxReads}

CorruptInit ==
    /\ input_bam = IndexedFile
    /\ references = << <<RefName(1), MaxRefLen>> >>
    /\ bam \in CorruptFiles(RefName(1), MaxRefLen)
    /\ bin_size \in 1..MaxRefLen
    /\ num_threads \in 1..MaxThreads
    /\ pc = "start"
    /\ chunks = <<>>
    /\ task = <<>>
    /\ chunk_results = <<>>
    /\ MergeInit
    /\ out = NoFile
    /\ CalcIdle
    /\ TagsIdle

SpecCorrupt == CorruptInit /\ [][GexNext]_vars

-----------------------------------------------------------------------------
(* calcReadTypeProp.main on a csv that is read in chunks *)

(* the rows of the csv: those of CsvRows without the intergenic ones *)
ImapRows == {row \in CsvRows : row[3] # I}

CsvFiles == UNION {[1..n -> ImapRows] : n \in 0..MaxCsvRows}

(* main has opened the input csv and has skipped its header *)
ImapInit ==
    /\ GexIdle
    /\ MergeInit
    /\ chunk = <<>>
    /\ row_k = 0
    /\ read_type_dict = <<>>
    /\ combined_dict = <<>>
    /\ calc_pc = "imap"
    /\ calc_out = NoFile
    /\ reader \in CsvFiles
    /\ reader_pos = 0
    /\ chunk_size \in 1..MaxChunkSize
    /\ imap_args = <<>>
    /\ imap_task = <<>>
    /\ imap_result = <<>>

(* chunk_iterator yields the next chunk and the pool queues its task *)
ImapYield ==
    /\ calc_pc = "imap"
    /\ islice(reader, reader_pos, chunk_size) # <<>>
    /\ LET c == islice(reader, reader_pos, chunk_size)
       IN  /\ imap_args' = Append(imap_args, c)
           /\ reader_pos' = reader_pos + Len(c)
    /\ imap_task' = Append(imap_task, "queued")
    /\ imap_result' = Append(imap_result, <<>>)
    /\ UNCHANGED <<tagsVars, inputVars, gexVars, chunks, task, chunk, row_k,
                   read_type_dict, combined_dict, calc_pc, calc_out, reader,
                   chunk_size>>

(* a worker returns from process_chunk: the tasks end in any order *)
ImapComplete(i) ==
    /\ calc_pc = "imap"
    /\ imap_task[i] = "queued"
    /\ imap_task' = [imap_task EXCEPT ![i] = "ready"]
    /\ imap_result' = [imap_result EXCEPT ![i] = process_chunk(<<>>, imap_args[i])]
    /\ UNCHANGED <<tagsVars, inputVars, gexVars, chunks, task, chunk, row_k,
                   read_type_dict, combined_dict, calc_pc, calc_out, reader,
                   reader_pos, chunk_size, imap_args>>

(* the loop of main takes a result of imap_unordered and adds it to
   combined_dict *)
ImapDeliver(i) ==
    /\ calc_pc = "imap"
    /\ imap_task[i] = "ready"
    /\ combined_dict' = Combine(combined_dict, imap_result[i])
    /\ imap_task' = [imap_task EXCEPT ![i] = "delivered"]
    /\ UNCHANGED <<tagsVars, inputVars, gexVars, chunks, task, chunk, row_k,
                   read_type_dict, calc_pc, calc_out, reader, reader_pos,
                   chunk_size, imap_args, imap_result>>

(* chunk_iterator gets an empty chunk and breaks; every result has been
   taken and the loop of main ends *)
ImapEnd ==
    /\ calc_pc = "imap"
    /\ islice(reader, reader_pos, chunk_size) = <<>>
    /\ \A i \in DOMAIN imap_task : imap_task[i] = "delivered"
    /\ calc_pc' = "write"
    /\ UNCHANGED <<imapVars, tagsVars, inputVars, gexVars, chunks, task, chunk,
                   row_k, read_type_dict, combined_dict, calc_out>>

ImapNext ==
    \/ ImapYield
    \/ \E i \in DOMAIN imap_task : ImapComplete(i)
    \/ \E i \in DOMAIN imap_task : ImapDeliver(i)
    \/ ImapEnd
    \/ CalcOpen
    \/ CalcWriteRow
    \/ CalcClose

SpecImap == ImapInit /\ [][ImapNext]_vars

-----------------------------------------------------------------------------
(* Either extractor on a file whose header gives no bin: no reference, or
   one reference of length 0; and, for comparison, on a file with a counted
   record at every coordinate *)

HeaderInit ==
    /\ input_bam = IndexedFile
    /\ references \in {<<>>, << <<RefName(1), 0>> >>,
                        << <<RefName(1), MaxRefLen>> >>}
    /\ IF get_bam_chunks(references, 1) = <<>> THEN bam = <<>>
       ELSE \E f \in [1..MaxRefLen -> TagValues("CB")] :
              bam = [k \in 1..MaxRefLen |->
                        TypicalRead(RefName(1), k - 1, f[k])]
    /\ bin_size \in 1..MaxRefLen
    /\ num_threads \in 1..MaxThreads
    /\ chunks = <<>>
    /\ task = <<>>
    /\ chunk_results = <<>>
    /\ MergeInit
    /\ out = NoFile
    /\ CalcIdle
    /\ temp_files = <<>>
    /\ umi_hashes_per_worker = <<>>
    /\ total_umi_seen = {}
    /\ seen_global = {}
    /\ final_output = NoFile
    /\ temp_i = 1
    /\ \/ pc = "start" /\ tags_pc = "idle"
       \/ pc = "idle" /\ tags_pc = "start"

HeaderNext == GexNext \/ TagsNext

SpecHeader == HeaderInit /\ [][HeaderNext]_vars

-----------------------------------------------------------------------------
(* Both commands on the records the filters are about: counted records of
   the cells A and C, and records of cell A that lack UB or RE, or have
   another MAPQ, another valid region type or an invalid one *)

FilterReadSet(ref, length) ==
    {r \in ReadSet(ref, length) :
        /\ r.reference_end = r.reference_start + 1
        /\ "CB" \in DOMAIN r.tags
        /\ r.tags["CB"] # <<>>
        /\ "UB" \in DOMAIN r.tags => r.tags["UB"] # <<>>
        /\ "RE" \in DOMAIN r.tags => r.tags["RE"] # I}
    \cup {TypicalRead(ref, s, <<"C">>) : s \in 0..(length - 1)}

FilterFiles(ref, length) ==
    UNION {{f \in [1..n -> FilterReadSet(ref, length)] : Sorted(f)} :
           n \in 0..MaxReads}

FilterInit ==
    \/ /\ input_bam = IndexedFile
       /\ references = << <<RefName(1), MaxRefLen>> >>
       /\ bam \in FilterFiles(RefName(1), MaxRefLen)
       /\ bin_size \in 1..MaxRefLen
       /\ num_threads \in 1..MaxThreads
       /\ pc = "start"
       /\ chunks = <<>>
       /\ task = <<>>
       /\ chunk_results = <<>>
       /\ MergeInit
       /\ out = NoFile
       /\ CalcIdle
       /\ TagsIdle
    \/ CalcInit

SpecFilter == FilterInit /\ [][Next]_vars

-----------------------------------------------------------------------------
(* Properties *)

Total(counts) == counts[E] + counts[N] + counts[I]

SameCounters(d1, d2) ==
    /\ Keys(d1) = Keys(d2)
    /\ \A cb \in Keys(d1) : Counts(d1, cb) = Counts(d2, cb)

Range(s) == {s[k] : k \in DOMAIN s}

(* a record that passes the three filters of the Record Extractor *)
Passes(read) ==
    /\ read.mapping_quality = 255
    /\ {"CB", "UB", "RE"} \subseteq DOMAIN read.tags
    /\ read.tags["RE"] \in {E, N, I}

CellBarcodesOf(file) ==
    {read.tags["CB"] : read \in {r \in Range(file) : "CB" \in DOMAIN r.tags}}

PassingPairs(file, cb) ==
    {read.tags["UB"] :
        read \in {r \in Range(file) : Passes(r) /\ r.tags["CB"] = cb}}

(* the bin size that makes the whole reference one bin *)
WholeReference == MaxRefLen

(* C1: when the pipeline has finished, the E+N+I count of each cell barcode
   is the number of distinct (CB, UB) pairs of that cell that have a record
   with MAPQ 255, both tags and a region type in {E, N, I} *)
C1_CountIsDistinctPassingPairs ==
    pc = "done" =>
        \A cb \in CellBarcodesOf(bam) \cup Keys(cell_data) :
            Total(Counts(cell_data, cb)) = Cardinality(PassingPairs(bam, cb))

(* C2: the counters of a run with any bin size are the counters of the run
   that takes the whole reference as one bin *)
C2_RebinningIdempotent ==
    pc = "done" =>
        SameCounters(cell_data, RunSequential(bam, references, WholeReference))

(* C3: whatever the worker count and the order in which the workers take
   and finish their chunks, the counters and the rows of the report are
   those of one worker that takes the chunks in order *)
C3_WorkerInvariance ==
    pc = "done" =>
        LET expected == RunSequential(bam, references, bin_size)
        IN  /\ SameCounters(cell_data, expected)
            /\ Range(out.rows) =
                 {ReportRow(expected[k].cb, expected[k].counts) :
                    k \in DOMAIN expected}

(* two workers, two chunks, and a molecule whose two records lie in
   different chunks with different region types: the merge order decides
   the counter *)
C3_Witness ==
    /\ pc = "done"
    /\ num_threads >= 2
    /\ Len(chunks) >= 2
    /\ cell_data # <<>>
    /\ \E j, k \in DOMAIN bam :
        /\ Passes(bam[j]) /\ Passes(bam[k])
        /\ bam[j].tags["CB"] = bam[k].tags["CB"]
        /\ bam[j].tags["UB"] = bam[k].tags["UB"]
        /\ bam[j].tags["RE"] # bam[k].tags["RE"]
        /\ bam[j].reference_end <= bam[k].reference_start

(* the records in the order in which the extractors of the chunks, taken
   in order, scan them *)
RECURSIVE ScanOrder(_)
ScanOrder(cs) ==
    IF cs = <<>> THEN <<>>
    ELSE fetch(bam, Head(cs).reference, Head(cs).start, Head(cs).end)
         \o ScanOrder(Tail(cs))

OfPair(read, cb, ub) ==
    /\ {"CB", "UB"} \subseteq DOMAIN read.tags
    /\ read.tags["CB"] = cb
    /\ read.tags["UB"] = ub

(* C4: a (CB, UB) pair that has two records passing the filters adds
   exactly one count, to one counter of its cell, and that counter is the
   region type of the occurrence that is processed first *)
C4_DuplicateCollapse ==
    pc = "done" =>
        \A j, k \in DOMAIN bam :
            (/\ j # k
             /\ Passes(bam[j]) /\ Passes(bam[k])
             /\ OfPair(bam[k], bam[j].tags["CB"], bam[j].tags["UB"]))
            => LET cb == bam[j].tags["CB"]
                   ub == bam[j].tags["UB"]
                   hits == SelectSeq(counted,
                              LAMBDA r : r.cb = cb /\ r.ub = ub)
                   scan == SelectSeq(ScanOrder(chunks),
                              LAMBDA r : Passes(r) /\ OfPair(r, cb, ub))
               IN  /\ Len(hits) = 1
                   /\ hits[1].region_type = scan[1].tags["RE"]
                   /\ Counts(cell_data, cb)[hits[1].region_type] >= 1

(* a record that the extractor skips before it looks at the seen set *)
Skipped(read) ==
    \/ read.mapping_quality # 255
    \/ ~({"CB", "UB"} \subseteq DOMAIN read.tags)

(* C5: a record without UB, or with MAPQ other than 255, or with a region
   code outside E/N/I adds nothing to any counter (a counter never exceeds
   the number of records of its cell and region that pass the filters; the
   counters of a run are those of the run on the file without its records
   that lack a barcode or the confident MAPQ), and no record makes a worker
   raise: a run fails only on an I/O error *)
C5_MalformedTolerance ==
    /\ \A cb \in Keys(cell_data) : \A t \in RegionTypes :
          Counts(cell_data, cb)[t] <=
              Cardinality({k \in DOMAIN bam :
                  /\ Passes(bam[k])
                  /\ bam[k].tags["CB"] = cb
                  /\ bam[k].tags["RE"] = t})
    /\ pc = "done" =>
          SameCounters(cell_data,
                       RunSequential(SelectSeq(bam, LAMBDA r : ~Skipped(r)),
                                     references, bin_size))
    /\ \A i \in DOMAIN task : task[i] # "raised"
    /\ pc = "failed" => \E i \in DOMAIN task : task[i] = "io_error"

Malformed(read) ==
    \/ read.mapping_quality # 255
    \/ "UB" \notin DOMAIN read.tags
    \/ "RE" \notin DOMAIN read.tags
    \/ read.tags["RE"] \notin {E, N, I}

(* a finished run on a file of a malformed record and a counted one *)
C5_Witness ==
    /\ pc = "done"
    /\ \E k \in DOMAIN bam : Malformed(bam[k])
    /\ \E k \in DOMAIN bam : ~Malformed(bam[k])
    /\ cell_data # <<>>

(* C6: a record whose CB or UB is present but empty yields no
   CandidateRecord and no key of the per-bin seen set *)
C6_EmptyBarcodesDropped ==
    \A i \in DOMAIN chunks :
        /\ \A k \in DOMAIN chunk_results[i] :
              /\ chunk_results[i][k].cb # <<>>
              /\ chunk_results[i][k].ub # <<>>
        /\ task[i] = "ok" =>
              LET st == process_chunk_streaming(bam, chunks[i])
                  scanned == fetch(bam, chunks[i].reference,
                                   chunks[i].start, chunks[i].end)
              IN  \A k \in DOMAIN scanned :
                    (/\ {"CB", "UB"} \subseteq DOMAIN scanned[k].tags
                     /\ \/ scanned[k].tags["CB"] = <<>>
                        \/ scanned[k].tags["UB"] = <<>>)
                    => scanned[k].tags["CB"] \o <<":">> \o scanned[k].tags["UB"]
                          \notin st.local_umi_seen

BinsOf(ref) == SelectSeq(chunks, LAMBDA c : c.reference = ref)

(* C7: per reference, the bins follow each other from 0 to the length, each
   with 0 <= start < end and at most bin_size long, only the last one
   shorter, every coordinate of [0, length) in exactly one bin and no bin
   beyond the length; a length <= 0 gives no bin; the bins of a reference
   come before those of the next reference *)
C7_ChunksPartition ==
    pc = "pool" =>
        /\ \A r \in DOMAIN references :
            LET length == references[r][2]
                bins == BinsOf(references[r][1])
            IN  /\ length <= 0 => bins = <<>>
                /\ \A k \in DOMAIN bins :
                    /\ 0 <= bins[k].start
                    /\ bins[k].start < bins[k].end
                    /\ bins[k].end - bins[k].start <= bin_size
                    /\ bins[k].end <= length
                    /\ k < Len(bins) =>
                          /\ bins[k].end - bins[k].start = bin_size
                          /\ bins[k + 1].start = bins[k].end
                /\ \A x \in 0..(length - 1) :
                    Cardinality({k \in DOMAIN bins :
                        bins[k].start <= x /\ x < bins[k].end}) = 1
        /\ \A j, k \in DOMAIN chunks :
            j < k => chunks[j].reference[2] <= chunks[k].reference[2]
        /\ \A k \in DOMAIN chunks :
            \E r \in DOMAIN references : references[r][1] = chunks[k].reference

(* a reference of three bins, the last one shorter, and a reference without
   bins *)
C7_Witness ==
    /\ pc = "pool"
    /\ \E r \in DOMAIN references :
        /\ Len(BinsOf(references[r][1])) >= 3
        /\ references[r][2] % bin_size # 0
    /\ \E r \in DOMAIN references : references[r][2] <= 0

ExpectedProp(count, total) == IF total > 0 THEN <<count, total>> ELSE <<0, 1>>

RowOf(row, item) ==
    LET total == item.counts[E] + item.counts[N] + item.counts[I]
    IN  /\ row.cell_barcode = item.cb
        /\ row.total_reads = total
        /\ row.exon_reads = item.counts[E]
        /\ row.intron_reads = item.counts[N]
        /\ row.intergenic_reads = item.counts[I]
        /\ row.exon_prop = ExpectedProp(item.counts[E], total)
        /\ row.intron_prop = ExpectedProp(item.counts[N], total)
        /\ row.intergenic_prop = ExpectedProp(item.counts[I], total)

(* C8: every row either reporter writes has total = E + N + I and each
   proportion count / total, or 0 when the total is 0, and no counter
   triple makes a reporter raise *)
C8_Proportions ==
    /\ pc # "failed"
    /\ calc_pc # "failed"
    /\ \A k \in DOMAIN out.rows : RowOf(out.rows[k], cell_data[k])
    /\ \A k \in DOMAIN calc_out.rows : RowOf(calc_out.rows[k], combined_dict[k])
    /\ pc = "done" => Len(out.rows) = Len(cell_data)
    /\ calc_pc = "done" => Len(calc_out.rows) = Len(combined_dict)

(* a report with a row of total 0 and a row of a positive total *)
C8_Witness ==
    /\ pc = "done"
    /\ \E k \in DOMAIN out.rows : out.rows[k].total_reads = 0
    /\ \E k \in DOMAIN out.rows :
        /\ out.rows[k].exon_reads = 1
        /\ out.rows[k].total_reads = 2

(* C9: every key of the cell counters has E + N + I >= 1 and occurs once,
   in the merge, in process_chunk and in the combined counters; neither
   report has a row of total 0 and,
   when the run is done, one row for each cell barcode that has a counted
   record *)
C9_NoEmptyCells ==
    /\ \A k \in DOMAIN cell_data : Total(cell_data[k].counts) >= 1
    /\ \A j, k \in DOMAIN cell_data :
          cell_data[j].cb = cell_data[k].cb => j = k
    /\ \A k \in DOMAIN read_type_dict : Total(read_type_dict[k].counts) >= 1
    /\ \A j, k \in DOMAIN read_type_dict :
          read_type_dict[j].cb = read_type_dict[k].cb => j = k
    /\ \A k \in DOMAIN combined_dict : Total(combined_dict[k].counts) >= 1
    /\ \A k \in DOMAIN out.rows : out.rows[k].total_reads >= 1
    /\ \A k \in DOMAIN calc_out.rows : calc_out.rows[k].total_reads >= 1
    /\ pc = "done" =>
          /\ Len(out.rows) = Cardinality({r.cb : r \in Range(counted)})
          /\ {out.rows[k].cell_barcode : k \in DOMAIN out.rows}
                = {r.cb : r \in Range(counted)}

(* a report of two cells *)
C9_Witness ==
    /\ pc = "done"
    /\ Len(out.rows) = 2
    /\ out.rows[1].cell_barcode # out.rows[2].cell_barcode

(* C10: once the processing of a bin has failed the run never merges,
   writes or ends normally, and the output file exists only when every bin
   was extracted and all of them merged *)
C10_AllOrNothing ==
    /\ (\E i \in DOMAIN task : task[i] \in {"io_error", "raised"}) =>
          /\ out = NoFile
          /\ pc \in {"pool", "failed"}
    /\ out.exists =>
          /\ \A i \in DOMAIN task : task[i] = "ok"
          /\ DOMAIN task = DOMAIN chunks
          /\ merge_i > Len(chunks)

(* a failed run in which another bin was extracted *)
C10_Witness ==
    /\ pc = "failed"
    /\ \E i \in DOMAIN task : task[i] = "io_error"
    /\ \E i \in DOMAIN task : task[i] = "ok" /\ chunk_results[i] # <<>>
    /\ out = NoFile

(* C11: when the run has ended with a failure, no output file is left at
   the output path *)
C11_NoPartialOutput == pc = "failed" => ~out.exists

(* C12: with an input that is missing or has no index, no bin is ever
   enumerated or dispatched and no output is written *)
C12_PreconditionFailsFirst ==
    (~input_bam.exists \/ ~input_bam.has_index) =>
        /\ chunks = <<>>
        /\ \A i \in DOMAIN task : task[i] = "queued"
        /\ out = NoFile

(* the bins whose result a worker has returned and the merge has not yet
   taken *)
Unmerged == {i \in DOMAIN task : task[i] = "ok" /\ i >= merge_i}

(* C13: the results that wait for the aggregator are never more than the
   workers, however many bins there are *)
C13_Backpressure == Cardinality(Unmerged) <= num_threads

Failed(t) == {i \in DOMAIN t : t[i] \in {"io_error", "raised"}}

(* C14: once a worker has failed no further bin is dispatched, and the run
   fails only when no worker is running any more *)
C14_Cancellation ==
    /\ [][Failed(task) # {} =>
            \A j \in DOMAIN task : task[j] = "queued" => task'[j] = "queued"]_vars
    /\ [](pc = "failed" => Running(task) = {})

(* C15: the global seen set and the cell counters are written by main
   alone, after the pool: while a task is queued or running they are as
   merge_chunk_results_streaming creates them, and once they have been
   written every task has ended; a worker writes the result of its own
   chunk only; process_chunk leaves combined_dict alone *)
C15_SingleWriter ==
    /\ pc \in {"start", "pool"} => MergeInit
    /\ ~MergeInit => /\ Running(task) = {}
                     /\ \A i \in DOMAIN task : task[i] = "ok"
    /\ \A i \in DOMAIN task :
          task[i] \in {"queued", "running"} => chunk_results[i] = <<>>
    /\ calc_pc = "process" => combined_dict = <<>>

(* the merge is writing the counters after two workers have extracted two
   chunks *)
C15_Witness ==
    /\ pc = "merge"
    /\ num_threads >= 2
    /\ Len(chunks) >= 2
    /\ merge_i = 2
    /\ merge_j >= 1
    /\ global_umi_seen # {}

(* the elements of a sequence in the order of their first occurrence *)
RECURSIVE FirstOccurrences(_)
FirstOccurrences(seq) ==
    IF seq = <<>> THEN <<>>
    ELSE LET front == FirstOccurrences(SubSeq(seq, 1, Len(seq) - 1))
             last == seq[Len(seq)]
         IN  IF last \in Range(front) THEN front ELSE Append(front, last)

(* C17: the rows of the report are in the order in which the merge first
   counted a record of each cell, and that order is the one of a single
   worker that takes the chunks in order *)
C17_RowOrder ==
    pc = "done" =>
        LET expected == RunSequential(bam, references, bin_size)
            rows == [k \in DOMAIN out.rows |-> out.rows[k].cell_barcode]
        IN  /\ rows = FirstOccurrences([k \in DOMAIN counted |-> counted[k].cb])
            /\ rows = [k \in DOMAIN expected |-> expected[k].cb]

(* two workers, two cells whose records lie in different chunks *)
C17_Witness ==
    /\ pc = "done"
    /\ num_threads = 2
    /\ Len(chunks) = 2
    /\ Len(out.rows) = 2
    /\ Len(bam) = 2
    /\ bam[1].reference_end <= bam[2].reference_start

(* C16: a run that has not ended can always take a step, and a run in
   which no worker fails ends with every chunk merged and the complete
   report written *)
C16_Termination ==
    /\ [](pc \notin {"done", "failed"} => ENABLED GexNext)
    /\ ([](Failed(task) = {}) =>
            <>(/\ pc = "done"
               /\ merge_i > Len(chunks)
               /\ out.exists
               /\ Len(out.rows) = Len(cell_data)))

(* a finished run of two workers on two chunks, with a report of two rows *)
C16_Witness ==
    /\ pc = "done"
    /\ num_threads >= 2
    /\ Len(chunks) >= 2
    /\ \A i \in DOMAIN task : task[i] = "ok"
    /\ Len(out.rows) >= 2

(* C18: the counters of gexBamReadTypeProp are those calcReadTypeProp
   computes from the csv gexBamTagsToCSV writes for the same file and bins *)
C18_VariantsAgree ==
    pc = "done" =>
        SameCounters(cell_data, RunCalc(RunTags(bam, references, bin_size)))

(* the (CB, UB) pairs of the confidently mapped records with both tags *)
BarcodePairs(file) ==
    {<<r.tags["CB"], r.tags["UB"]>> :
        r \in {x \in Range(file) : /\ x.mapping_quality = 255
                                    /\ {"CB", "UB"} \subseteq DOMAIN x.tags}}

(* C19: the final csv has one data row for each (CB, UB) pair of a
   confidently mapped record with both tags, no two rows of the same pair,
   and as many rows as total_umi_seen has members *)
C19_UmiCollapsed ==
    tags_pc = "done" =>
        LET rows == final_output.rows
        IN  /\ {<<rows[k][1], rows[k][2]>> : k \in DOMAIN rows}
                  = BarcodePairs(bam)
            /\ Len(rows) = Cardinality(BarcodePairs(bam))
            /\ Len(rows) = Cardinality(total_umi_seen)

(* C20: on the four records of the scenario, wherever they lie, the report
   has the two rows cellA: total 2, exon 1 (1/2), intron 1 (1/2),
   intergenic 0 (0/2) and cellB: total 1, exon 0, intron 0, intergenic 1
   (1/1) *)
C20_Scenario ==
    pc = "done" =>
        /\ Len(out.rows) = 2
        /\ Range(out.rows) =
             {[cell_barcode |-> <<"A">>, total_reads |-> 2,
               exon_reads |-> 1, exon_prop |-> <<1, 2>>,
               intron_reads |-> 1, intron_prop |-> <<1, 2>>,
               intergenic_reads |-> 0, intergenic_prop |-> <<0, 2>>],
              [cell_barcode |-> <<"B">>, total_reads |-> 1,
               exon_reads |-> 0, exon_prop |-> <<0, 1>>,
               intron_reads |-> 0, intron_prop |-> <<0, 1>>,
               intergenic_reads |-> 1, intergenic_prop |-> <<1, 1>>]}

(* a finished run in which the two records of molecule 1 lie in different
   bins *)
C20_Witness ==
    /\ pc = "done"
    /\ Len(chunks) >= 2
    /\ out.exists
    /\ \E j, k \in DOMAIN bam :
          /\ bam[j].tags["UB"] = <<"1">>
          /\ bam[k].tags["UB"] = <<"1">>
          /\ bam[j].reference_end <= bam[k].reference_start
    /\ bin_size = 1
    /\ Len(out.rows) = 2

(* the records the extractor of a chunk scans, in file order *)
Scanned(c) == fetch(bam, c.reference, c.start, c.end)

(* C21: within one bin the three filters come before the deduplication:
   each (CB, UB) pair with a record of the bin that passes the filters has
   exactly one CandidateRecord in the result of the bin, the one of its first
   passing record in file order, whatever records of the pair fail a filter
   before it *)
C21_FiltersBeforeDedup ==
    \A i \in DOMAIN chunks :
        (pc = "pool" /\ task[i] = "ok") =>
            LET passing == SelectSeq(Scanned(chunks[i]), Passes)
            IN  \A k \in DOMAIN passing :
                  LET cb == passing[k].tags["CB"]
                      ub == passing[k].tags["UB"]
                      first == SelectSeq(passing,
                                  LAMBDA r : OfPair(r, cb, ub))[1]
                      emitted == SelectSeq(chunk_results[i],
                                  LAMBDA r : r.cb = cb /\ r.ub = ub)
                  IN  /\ Len(emitted) = 1
                      /\ emitted[1].region_type = first.tags["RE"]

(* the batches in the order p *)
Permuted(batches, p) == [k \in DOMAIN batches |-> batches[p[k]]]

(* C22: the counters merge_chunk_results_streaming returns for the batches
   the pool has handed to it are the counters it returns for every
   permutation of these batches *)
C22_OrderIndependent ==
    (pc = "merge" /\ merge_i = 1 /\ merge_j = 0) =>
        \A p \in Orders(Len(chunk_results)) :
            SameCounters(
                merge_chunk_results_streaming(chunk_results),
                merge_chunk_results_streaming(Permuted(chunk_results, p)))

(* the chunks whose worker has returned and has scanned the record *)
VisitedBy(read) ==
    {i \in DOMAIN chunks :
        task[i] = "ok" /\ read \in Range(Scanned(chunks[i]))}

(* C23: a record is scanned by the extractor of the bin that holds its
   start coordinate and by no other: once every worker has returned, by
   exactly one *)
C23_OneBinPerRecord ==
    pc = "pool" =>
        \A k \in DOMAIN bam :
            /\ \A i \in VisitedBy(bam[k]) :
                  /\ chunks[i].start <= bam[k].reference_start
                  /\ bam[k].reference_start < chunks[i].end
            /\ (\A i \in DOMAIN task : task[i] = "ok") =>
                  Cardinality(VisitedBy(bam[k])) = 1

Readable(file) == SelectSeq(file, LAMBDA r : ~Unreadable(r))

(* C24: a record that cannot be decoded never makes the extractor of its
   bin raise and never makes the run fail: a run fails only on an error of
   the file as a whole, and the extractor of a bin returns the
   CandidateRecords of the other records of the bin *)
C24_CorruptSkipped ==
    /\ \A i \in DOMAIN task : task[i] # "raised"
    /\ pc = "failed" => \E i \in DOMAIN task : task[i] = "io_error"
    /\ \A i \in DOMAIN task :
          (pc = "pool" /\ task[i] = "ok") =>
              chunk_results[i] =
                  process_chunk_streaming(Readable(bam), chunks[i]).umi_records

(* sum(sum(counts.values()) for counts in combined_data.values()) *)
RECURSIVE SumOfCounters(_)
SumOfCounters(d) ==
    IF d = <<>> THEN 0
    ELSE Total(Head(d).counts) + SumOfCounters(Tail(d))

(* C25: in every state of the merge the sum of all E, N and I counters is
   the size of global_umi_seen and is total_records_after, which never
   exceeds total_records_before once the chunk at hand is merged; no step
   removes a hash from global_umi_seen, removes a cell or lowers a counter *)
C25_AggregationInvariant ==
    /\ [](/\ SumOfCounters(cell_data) = Cardinality(global_umi_seen)
          /\ SumOfCounters(cell_data) = total_records_after
          /\ total_records_after <= total_records_before)
    /\ [][/\ global_umi_seen \subseteq global_umi_seen'
          /\ Keys(cell_data) \subseteq Keys(cell_data')
          /\ \A cb \in Keys(cell_data) : \A t \in RegionTypes :
                Counts(cell_data, cb)[t] <= Counts(cell_data', cb)[t]
          /\ total_records_after <= total_records_after']_vars

(* the merge has counted three molecules of two cells and has skipped a
   record of a molecule it had seen in an earlier chunk *)
C25_Witness ==
    /\ pc = "write"
    /\ Len(cell_data) = 2
    /\ Cardinality(global_umi_seen) = 3
    /\ total_records_before > total_records_after

(* C26: each bin of get_bam_chunks has one task, which is taken by a worker
   once and ends once with the result of its own bin; at most num_threads
   bins are being extracted at any time; when pool.map has returned
   normally every bin has been processed *)
C26_OnceAndBounded ==
    /\ [](/\ Cardinality(Running(task)) <= num_threads
          /\ pc \in {"pool", "merge", "write", "writing", "done"} =>
                DOMAIN task = DOMAIN chunks
          /\ pc \in {"merge", "write", "writing", "done"} =>
                \A i \in DOMAIN chunks : task[i] = "ok"
          /\ \A i \in DOMAIN task :
                (pc = "pool" /\ task[i] = "ok") =>
                    chunk_results[i] =
                        process_chunk_streaming(bam, chunks[i]).umi_records)
    /\ [][\A i \in DOMAIN task :
            task'[i] # task[i] =>
                \/ task[i] = "queued" /\ task'[i] = "running"
                \/ task[i] = "running" /\ task'[i] \in Finished]_vars

(* more bins than workers: every worker is extracting a bin and a bin
   waits *)
C26_Witness ==
    /\ pc = "pool"
    /\ Len(chunks) > num_threads
    /\ Cardinality(Running(task)) = num_threads
    /\ \E i \in DOMAIN task : task[i] = "queued"

(* the rows of four fields of the given cell and region type *)
CountedRows(rows, cb, t) ==
    {k \in DOMAIN rows : /\ Len(rows[k]) = 4
                         /\ rows[k][1] = cb
                         /\ rows[k][3] = t}

(* the first fields of the rows *)
CellsOf(rows) == {rows[k][1] : k \in DOMAIN rows}

(* C27: the dict process_chunk returns for a chunk has, for each cell and
   each of E, N and I, the number of rows of exactly four fields of that
   cell and region type, whatever rows of another length or another
   region type stand in the chunk, and its keys are the cells of these
   rows; no row makes calcReadTypeProp fail *)
C27_MalformedRowSkipped ==
    /\ calc_pc # "failed"
    /\ \A i \in DOMAIN imap_task :
          imap_task[i] \in {"ready", "delivered"} =>
              /\ \A cb \in CellsOf(imap_args[i]) \cup Keys(imap_result[i]) :
                 \A t \in RegionTypes :
                    Counts(imap_result[i], cb)[t] =
                        Cardinality(CountedRows(imap_args[i], cb, t))
              /\ \A k \in DOMAIN imap_result[i] :
                    Total(imap_result[i][k].counts) >= 1

(* process_chunk has returned from a chunk whose first row has three
   fields and whose second row is counted *)
C27_Witness ==
    \E i \in DOMAIN imap_task :
        /\ imap_task[i] = "ready"
        /\ Len(imap_args[i]) = 2
        /\ Len(imap_args[i][1]) # 4
        /\ Len(imap_args[i][2]) = 4
        /\ imap_args[i][2][3] \in RegionTypes
        /\ Total(Counts(imap_result[i], imap_args[i][2][1])) = 1

RECURSIVE Flatten(_)
Flatten(seqs) ==
    IF seqs = <<>> THEN <<>> ELSE Head(seqs) \o Flatten(Tail(seqs))

(* C28: the chunks chunk_iterator has yielded are non-empty, at most
   chunk_size long, all but the last one chunk_size long, and their
   concatenation is the rows the reader has handed out, all rows once the
   loop has ended; whatever the order in which the results were taken,
   the combined counters of each cell are then the numbers of rows of four
   fields of that cell with region type E, N and I in the whole csv *)
C28_ChunkingInvariance ==
    /\ Flatten(imap_args) = SubSeq(reader, 1, reader_pos)
    /\ \A i \in DOMAIN imap_args :
          /\ imap_args[i] # <<>>
          /\ Len(imap_args[i]) <= chunk_size
          /\ i < Len(imap_args) => Len(imap_args[i]) = chunk_size
    /\ calc_pc \in {"write", "writing", "done"} =>
          /\ reader_pos = Len(reader)
          /\ \A cb \in CellsOf(reader) \cup Keys(combined_dict) :
             \A t \in RegionTypes :
                Counts(combined_dict, cb)[t] =
                    Cardinality(CountedRows(reader, cb, t))
          /\ SameCounters(combined_dict, RunCalc(reader))

(* a csv of three rows read in chunks of two: the result of the second,
   shorter chunk was taken first, and the cell of the first chunk has rows
   in both chunks *)
C28_Witness ==
    /\ calc_pc = "done"
    /\ Len(reader) = 3
    /\ chunk_size = 2
    /\ Len(imap_args) = 2
    /\ Len(combined_dict) = 2
    /\ combined_dict[1].cb = <<"C">>
    /\ reader[1][1] = <<"A">>
    /\ Total(Counts(combined_dict, <<"A">>)) = 2

(* C29: on an input that gives no bin, neither gexBamReadTypeProp nor
   gexBamTagsToCSV fails, and when either has ended its output file is
   there with the header row and no data row *)
C29_ZeroBins ==
    get_bam_chunks(references, bin_size) = <<>> =>
        /\ pc # "failed"
        /\ tags_pc # "failed"
        /\ pc = "done" => /\ out.exists
                          /\ out.header = Header
                          /\ out.rows = <<>>
        /\ tags_pc = "done" => /\ final_output.exists
                               /\ final_output.header = TagsHeader
                               /\ final_output.rows = <<>>

HasPair(read) == {"CB", "UB"} \subseteq DOMAIN read.tags

(* C30: two records with different (CB, UB) pairs never have the same key
   string, in hash_umi as in umi_key, whatever characters the barcodes
   hold; the seen set of a worker has one key for each pair of the
   confidently mapped records of its bin *)
C30_KeyInjective ==
    /\ \A j, k \in DOMAIN bam :
          (HasPair(bam[j]) /\ HasPair(bam[k])) =>
              LET pj == <<bam[j].tags["CB"], bam[j].tags["UB"]>>
                  pk == <<bam[k].tags["CB"], bam[k].tags["UB"]>>
              IN  /\ umi_key(pj[1], pj[2]) = umi_key(pk[1], pk[2]) => pj = pk
                  /\ hash_umi(pj[1], pj[2]) = hash_umi(pk[1], pk[2]) => pj = pk
    /\ \A i \in DOMAIN task :
          (tags_pc = "pool" /\ task[i] = "ok") =>
              Cardinality(umi_hashes_per_worker[i]) =
                  Cardinality(BarcodePairs(Scanned(chunks[i])))

====
